---- MODULE Spec2Model ----
(***************************************************************************)
(* A model of src/python/InPort_Update.py: the session acquisition, the    *)
(* GET - modify - POST loop over the subsetted feature-service rows, and   *)
(* the text and tree edits the loop applies to each metadata document.     *)
(*                                                                         *)
(* Python strings are sequences of one-character strings, so that the      *)
(* regular expressions, the slice and the tag suffix tests are computed    *)
(* character by character.  An XML element is a record                     *)
(*   [tag |-> string, text |-> string, children |-> sequence of elements]  *)
(* as xml.etree.ElementTree holds it; an element without text has the text *)
(* NoText (ET's None: a parsed element never has the empty string).        *)
(***************************************************************************)
EXTENDS Integers, Sequences, FiniteSets, TLC

VARIABLES
    columns_ok,    \* the table has the columns file_id, rest_url, link
    df_subset,     \* the rows of df_subset, in iterrows() order
    session_id,    \* the global session_id
    pc,            \* position of the script
    index,         \* number of rows the for loop has taken so far
    log,           \* the HTTP calls made and the lines printed, in order
    fn,            \* which edit a single-function run applies
    fn_in,         \* its input
    fn_out,        \* its result
    fn_calls       \* how many times it was applied

vars == <<columns_ok, df_subset, session_id, pc, index, log,
          fn, fn_in, fn_out, fn_calls>>

batch_vars == <<columns_ok, df_subset, session_id, pc, index, log>>

fn_vars == <<fn, fn_in, fn_out, fn_calls>>

\* Python's None, where the other values are strings (a character, a token)
None == "None"

\* an element's text when it has none: ET holds None, and the tests
\* "if abstract_node.text" and "if limit_node.text" treat None and "" alike
NoText == <<>>

(***************************************************************************)
(* Strings                                                                 *)
(***************************************************************************)

Min(a, b) == IF a < b THEN a ELSE b

\* s[i] or None past the end
At(s, i) == IF i >= 1 /\ i <= Len(s) THEN s[i] ELSE None

\* s[i:] of Python, i counted from 1
From(s, i) == IF i > Len(s) THEN <<>> ELSE SubSeq(s, i, Len(s))

\* str.endswith
EndsWith(s, suffix) ==
    /\ Len(s) >= Len(suffix)
    /\ SubSeq(s, Len(s) - Len(suffix) + 1, Len(s)) = suffix

\* \s of the re module, on the characters the model uses
IsSpace(c) == c \in {" ", "\n", "\t"}

\* \d of the re module
IsDigit(c) == c \in {"0", "1", "2", "3", "4", "5", "6", "7", "8", "9"}

DigitVal(c) ==
    CASE c = "0" -> 0 [] c = "1" -> 1 [] c = "2" -> 2 [] c = "3" -> 3
      [] c = "4" -> 4 [] c = "5" -> 5 [] c = "6" -> 6 [] c = "7" -> 7
      [] c = "8" -> 8 [] c = "9" -> 9

\* re.IGNORECASE: the case folding of the letters the patterns hold
Lower(c) ==
    CASE c = "A" -> "a" [] c = "B" -> "b" [] c = "E" -> "e" [] c = "F" -> "f"
      [] c = "H" -> "h" [] c = "P" -> "p" [] c = "R" -> "r"
      [] OTHER -> c

\* the literal lit (given in lower case) matches s at i, ignoring case
MatchLit(s, i, lit) ==
    /\ i >= 1
    /\ i + Len(lit) - 1 <= Len(s)
    /\ \A k \in 1..Len(lit) : Lower(s[i + k - 1]) = lit[k]

\* the literal lit matches s at i, case kept
MatchExact(s, i, lit) ==
    /\ i >= 1
    /\ i + Len(lit) - 1 <= Len(s)
    /\ SubSeq(s, i, i + Len(lit) - 1) = lit

RECURSIVE SkipSpace(_, _)
\* \s* from i: the index after the longest run of whitespace
SkipSpace(s, i) ==
    IF i <= Len(s) /\ IsSpace(s[i]) THEN SkipSpace(s, i + 1) ELSE i

RECURSIVE SkipDigits(_, _)
\* \d* from i
SkipDigits(s, i) ==
    IF i <= Len(s) /\ IsDigit(s[i]) THEN SkipDigits(s, i + 1) ELSE i

RECURSIVE SkipNotQuote(_, _)
\* [^"]* from i
SkipNotQuote(s, i) ==
    IF i <= Len(s) /\ s[i] # "\"" THEN SkipNotQuote(s, i + 1) ELSE i

RECURSIVE FindLit(_, _, _)
\* the first index >= i where lit matches (ignoring case), 0 if none
FindLit(s, i, lit) ==
    IF i + Len(lit) - 1 > Len(s) THEN 0
    ELSE IF MatchLit(s, i, lit) THEN i
    ELSE FindLit(s, i + 1, lit)

RECURSIVE FindExact(_, _, _)
\* the first index >= i where lit matches, 0 if none
FindExact(s, i, lit) ==
    IF i + Len(lit) - 1 > Len(s) THEN 0
    ELSE IF MatchExact(s, i, lit) THEN i
    ELSE FindExact(s, i + 1, lit)

RECURSIVE IntOf(_)
\* int() of a string of digits
IntOf(ds) ==
    IF ds = <<>> THEN 0
    ELSE 10 * IntOf(SubSeq(ds, 1, Len(ds) - 1)) + DigitVal(ds[Len(ds)])

RECURSIVE Flatten(_)
\* the concatenation of a sequence of strings
Flatten(ss) == IF ss = <<>> THEN <<>> ELSE Head(ss) \o Flatten(Tail(ss))

(***************************************************************************)
(* Edit abstract: lines 113-121.  The pattern is group 1 (start of text,   *)
(* whitespace, an optional <p>, whitespace) and then one or more rounds of *)
(* an anchor (<a, whitespace, href="...">, anything up to the first </a>), *)
(* whitespace, an optional <br> or <br/>, whitespace; matched with         *)
(* re.IGNORECASE | re.DOTALL and replaced by group 1.  No piece of the     *)
(* pattern can start with a character the piece before it can end with, so *)
(* the leftmost match the backtracking engine returns is the one the       *)
(* greedy (lazy for .*?) scan below finds.  The pattern is anchored at the *)
(* start of the text, so re.sub replaces at most one match.                *)
(***************************************************************************)

L_p      == <<"<", "p", ">">>
L_a      == <<"<", "a">>
L_href   == <<"h", "r", "e", "f", "=", "\"">>
L_aclose == <<"<", "/", "a", ">">>
L_br     == <<"<", "b", "r">>

\* group 1, ^ \s* (?:<p>)? \s* : the index after it
Group1End(s) ==
    LET i1 == SkipSpace(s, 1)
        i2 == IF MatchLit(s, i1, L_p) THEN i1 + Len(L_p) ELSE i1
    IN  SkipSpace(s, i2)

\* (?:<br \s* /? >)? from i: the index after the line break, i if there is none
SkipBr(s, i) ==
    IF ~MatchLit(s, i, L_br) THEN i
    ELSE LET b1 == SkipSpace(s, i + Len(L_br))
             b2 == IF At(s, b1) = "/" THEN b1 + 1 ELSE b1
         IN  IF At(s, b2) = ">" THEN b2 + 1 ELSE i

\* one round, <a \s+ href=" [^"]* "> .*? </a> \s* (?:<br \s* /? >)? \s* from i:
\* the index after it, 0 if it does not match at i
MatchLink(s, i) ==
    IF ~(MatchLit(s, i, L_a) /\ IsSpace(At(s, i + Len(L_a)))) THEN 0
    ELSE LET j1 == SkipSpace(s, i + Len(L_a))
         IN  IF ~MatchLit(s, j1, L_href) THEN 0
             ELSE LET j2 == SkipNotQuote(s, j1 + Len(L_href))
                  IN  IF ~(At(s, j2) = "\"" /\ At(s, j2 + 1) = ">") THEN 0
                      ELSE LET k == FindLit(s, j2 + 2, L_aclose)
                           IN  IF k = 0 THEN 0
                               ELSE SkipSpace(s,
                                      SkipBr(s, SkipSpace(s, k + Len(L_aclose))))

RECURSIVE LinkRunEnd(_, _)
\* the repetition of the round from i, after a first round matched: the index after the last
\* round that matches
LinkRunEnd(s, i) ==
    LET j == MatchLink(s, i)
    IN  IF j = 0 THEN i ELSE LinkRunEnd(s, j)

StripOnlyFirstLink(text) ==
    LET g == Group1End(text)
        j == MatchLink(text, g)
    IN  IF j = 0 THEN text ELSE SubSeq(text, 1, g - 1) \o From(text, j)

\* re.sub(match_pattern, r'\1', text, flags=re.IGNORECASE | re.DOTALL)
stripLeadingLinks(text) ==
    LET g == Group1End(text)
        j == MatchLink(text, g)
    IN  IF j = 0 THEN text
        ELSE SubSeq(text, 1, g - 1) \o From(text, LinkRunEnd(text, j))

(***************************************************************************)
(* Edit use limits: lines 123-128.                                         *)
(***************************************************************************)

\* the width of the slice text[:267]
UseLimitWidth == 267

TruncateNoSlice(text) == text \o <<".">>

\* limit_node.text[:267] + '.'
truncateUseLimit(text) ==
    SubSeq(text, 1, Min(UseLimitWidth, Len(text))) \o <<".">>

(***************************************************************************)
(* Extract InPort item ID from link: lines 183-190.                        *)
(***************************************************************************)

L_item == <<"/", "i", "t", "e", "m", "/">>

RECURSIVE SearchItem(_, _)
\* re.search(r'/item/(\d+)', link) scanning from i: the index of the first
\* digit of group 1 at the leftmost match, 0 if there is no match
SearchItem(link, i) ==
    LET k == FindExact(link, i, L_item)
    IN  IF k = 0 THEN 0
        ELSE IF IsDigit(At(link, k + Len(L_item))) THEN k + Len(L_item)
        ELSE SearchItem(link, k + 1)

IdMatchFirstDigitOnly(link) ==
    LET d == SearchItem(link, 1)
    IN  IF d = 0 THEN <<>> ELSE <<link[d]>>

\* id_match.group(1) of id_match = re.search(r'/item/(\d+)', link): the
\* digits captured, and the empty string when id_match is None (a match
\* captures one digit at least)
id_match(link) ==
    LET d == SearchItem(link, 1)
    IN  IF d = 0 THEN <<>> ELSE SubSeq(link, d, SkipDigits(link, d) - 1)

(***************************************************************************)
(* Elements                                                                *)
(***************************************************************************)

T_metadata == <<"m", "e", "t", "a", "d", "a", "t", "a">>
T_dataIdInfo == <<"d", "a", "t", "a", "I", "d", "I", "n", "f", "o">>
T_idAbs == <<"i", "d", "A", "b", "s">>
T_resConst == <<"r", "e", "s", "C", "o", "n", "s", "t">>
T_Consts == <<"C", "o", "n", "s", "t", "s">>
T_useLimit == <<"u", "s", "e", "L", "i", "m", "i", "t">>
T_Binary == <<"B", "i", "n", "a", "r", "y">>
T_Thumbnail == <<"T", "h", "u", "m", "b", "n", "a", "i", "l">>
T_Data == <<"D", "a", "t", "a">>
T_distInfo == <<"d", "i", "s", "t", "I", "n", "f", "o">>
T_distTranOps == <<"d", "i", "s", "t", "T", "r", "a", "n", "O", "p", "s">>
T_onLineSrc == <<"o", "n", "L", "i", "n", "e", "S", "r", "c">>
T_linkage == <<"l", "i", "n", "k", "a", "g", "e">>
T_distFormat == <<"d", "i", "s", "t", "F", "o", "r", "m", "a", "t">>
T_formatName == <<"f", "o", "r", "m", "a", "t", "N", "a", "m", "e">>
T_Esri == <<"E", "s", "r", "i">>

\* the literal "ESRI REST Service" of line 174
ESRI_REST_Service == <<"E", "S", "R", "I", " ", "R", "E", "S", "T", " ", "S", "e", "r", "v", "i", "c", "e">>

\* ET.Element(tag): no text, no children
Element(tag) == [tag |-> tag, text |-> NoText, children |-> <<>>]

Elem(tag, text, children) == [tag |-> tag, text |-> text, children |-> children]

RECURSIVE Iter(_)
RECURSIVE IterAll(_)
\* Element.iter(): the element itself, then its descendants, in document order
Iter(e) == <<e>> \o IterAll(e.children)
IterAll(es) == IF es = <<>> THEN <<>> ELSE Iter(Head(es)) \o IterAll(Tail(es))

RECURSIVE FindFrom(_, _, _)
FindFrom(children, tag, i) ==
    IF i > Len(children) THEN 0
    ELSE IF children[i].tag = tag THEN i
    ELSE FindFrom(children, tag, i + 1)

\* Element.find(tag): the position of the first child with that tag, 0 for None
find(e, tag) == FindFrom(e.children, tag, 1)

\* the child find() returned at position i, or the one ET.SubElement(e, tag)
\* makes when find() returned None
FoundOrNew(e, i, tag) == IF i = 0 THEN Element(tag) ELSE e.children[i]

\* e with child c at position i, where it was found, or appended as
\* ET.SubElement appends it when it was not (i = 0)
WithChild(e, i, c) ==
    IF i = 0 THEN [e EXCEPT !.children = Append(@, c)]
    ELSE [e EXCEPT !.children[i] = c]

RECURSIVE RemoveFirst(_, _)
\* list.remove: the sequence without its first element equal to x
RemoveFirst(seq, x) ==
    IF seq = <<>> THEN <<>>
    ELSE IF Head(seq) = x THEN Tail(seq)
    ELSE <<Head(seq)>> \o RemoveFirst(Tail(seq), x)

(***************************************************************************)
(* The findall loops of lines 114-120 and 124-127.  ".//dataIdInfo/..."    *)
(* starts at every descendant of the root (never the root itself) with tag *)
(* dataIdInfo and follows the child steps from it.  depth is the number of *)
(* steps of dataIdInfo/resConst/Consts matched by the path ending at e.    *)
(***************************************************************************)

PathDepth(parent_depth, tag, is_root) ==
    IF tag = T_dataIdInfo /\ ~is_root THEN 1
    ELSE IF parent_depth = 1 /\ tag = T_resConst THEN 2
    ELSE IF parent_depth = 2 /\ tag = T_Consts THEN 3
    ELSE 0

EditAbstractText(text) == IF text # NoText THEN stripLeadingLinks(text) ELSE text

EditUseLimitText(text) == IF text # NoText THEN truncateUseLimit(text) ELSE text

RECURSIVE EditAbstracts(_, _, _)
\* for abstract_node in root.findall(".//dataIdInfo/idAbs"): the subtree e
\* with the text of every idAbs child of a dataIdInfo stripped
EditAbstracts(e, parent_depth, is_root) ==
    [tag |-> e.tag,
     text |-> IF parent_depth = 1 /\ e.tag = T_idAbs
                 THEN EditAbstractText(e.text) ELSE e.text,
     children |-> [i \in 1..Len(e.children) |->
                      EditAbstracts(e.children[i],
                                    PathDepth(parent_depth, e.tag, is_root), FALSE)]]

RECURSIVE EditUseLimits(_, _, _)
\* for limit_node in root.findall(".//dataIdInfo/resConst/Consts/useLimit")
EditUseLimits(e, parent_depth, is_root) ==
    [tag |-> e.tag,
     text |-> IF parent_depth = 3 /\ e.tag = T_useLimit
                 THEN EditUseLimitText(e.text) ELSE e.text,
     children |-> [i \in 1..Len(e.children) |->
                      EditUseLimits(e.children[i],
                                    PathDepth(parent_depth, e.tag, is_root), FALSE)]]

(***************************************************************************)
(* Remove thumbnail: lines 130-139.                                        *)
(***************************************************************************)

\* the inner loop, for grandchild in child.iter(): it reaches the remove
HasThumbnail(child) ==
    \E k \in 1..Len(Iter(child)) : EndsWith(Iter(child)[k].tag, T_Thumbnail)

RECURSIVE RemoveUpToFirst(_, _, _)
RemoveUpToFirst(snapshot, i, children) ==
    IF i > Len(snapshot) THEN children
    ELSE IF EndsWith(snapshot[i].tag, T_Binary) /\ HasThumbnail(snapshot[i])
        THEN RemoveFirst(children, snapshot[i])
    ELSE RemoveUpToFirst(snapshot, i + 1, children)

RECURSIVE RemoveLoop(_, _, _)
\* for child in list(root), from position i of the snapshot list(root):
\* the break of line 139 leaves the inner loop only, and the outer loop
\* goes on with the next child of the snapshot
RemoveLoop(snapshot, i, children) ==
    IF i > Len(snapshot) THEN children
    ELSE IF EndsWith(snapshot[i].tag, T_Binary) /\ HasThumbnail(snapshot[i])
        THEN RemoveLoop(snapshot, i + 1, RemoveFirst(children, snapshot[i]))
    ELSE RemoveLoop(snapshot, i + 1, children)

removeThumbnailBlock(doc) ==
    [doc EXCEPT !.children = RemoveLoop(doc.children, 1, doc.children)]

(***************************************************************************)
(* Edit/create distribution info: lines 141-174.                           *)
(***************************************************************************)

UpsertAlwaysCreate(doc, rest_url) ==
    WithChild(doc, 0,
        Elem(T_distInfo, NoText,
             <<Elem(T_distTranOps, NoText,
                    <<Elem(T_onLineSrc, NoText,
                           <<Elem(T_linkage, rest_url, <<>>)>>)>>),
               Elem(T_distFormat, NoText,
                    <<Elem(T_formatName, ESRI_REST_Service, <<>>)>>)>>))

upsertDistributionInfo(doc, rest_url) ==
    LET di   == find(doc, T_distInfo)
        dist_info == FoundOrNew(doc, di, T_distInfo)
        dto  == find(dist_info, T_distTranOps)
        dist_tran_ops == FoundOrNew(dist_info, dto, T_distTranOps)
        os   == find(dist_tran_ops, T_onLineSrc)
        online_src == FoundOrNew(dist_tran_ops, os, T_onLineSrc)
        lk   == find(online_src, T_linkage)
        linkage == [FoundOrNew(online_src, lk, T_linkage) EXCEPT !.text = rest_url]
        \* dist_info with the transfer options written back
        dist_info_1 ==
            WithChild(dist_info, dto,
                WithChild(dist_tran_ops, os,
                    WithChild(online_src, lk, linkage)))
        df   == find(dist_info_1, T_distFormat)
        dist_format == FoundOrNew(dist_info_1, df, T_distFormat)
        fmt  == find(dist_format, T_formatName)
        format_name == [FoundOrNew(dist_format, fmt, T_formatName)
                           EXCEPT !.text = ESRI_REST_Service]
    IN  WithChild(doc, di,
            WithChild(dist_info_1, df,
                WithChild(dist_format, fmt, format_name)))

\* lines 113-174 on the parsed document
editDocument(doc, rest_url) ==
    upsertDistributionInfo(
        removeThumbnailBlock(
            EditUseLimits(EditAbstracts(doc, 0, TRUE), 0, TRUE)),
        rest_url)

(***************************************************************************)
(* The inputs of a run: the rows of df_subset, the session endpoint's      *)
(* answers and the documents ArcGIS serves.                                *)
(***************************************************************************)

\* rows in df_subset at most
MaxRecords == 2

\* the status code line 105 accepts
HTTP_OK == 200

\* "transformId": 1005 of line 196
TransformId == 1005

\* session ids the session endpoint may hand out
Tokens == {"s1", "s2"}

\* status codes the publish endpoint answers with
PublishCodes == {200, 500}

\* status codes other than 200 that the metadata endpoint answers with
FetchFailCodes == {404}

REST_URL == <<"h", "t", "t", "p", "s", ":", "/", "/", "s", "v", "c", "/", "r", "e", "s", "t">>

LinkWithId   == <<"h", "t", "t", "p", "s", ":", "/", "/", "x", "/", "i", "t", "e", "m", "/", "4", "5", "2", "1">>
LinkNoId     == <<"h", "t", "t", "p", "s", ":", "/", "/", "x", "/", "n", "o", "i", "d">>
LinkZeroId   == <<"h", "t", "t", "p", "s", ":", "/", "/", "x", "/", "i", "t", "e", "m", "/", "0">>
LinkTwoIds   == <<"/", "i", "t", "e", "m", "/", "x", "/", "i", "t", "e", "m", "/", "9", "9", "/", "i", "t", "e", "m", "/", "7">>

BatchLinks == {LinkWithId, LinkNoId, LinkZeroId}

\* row number i of the table, with the given InPort link
Row(i, link) == [file_id |-> i, rest_url |-> REST_URL, link |-> link]

RowLists(links, n) ==
    UNION {{[i \in 1..k |-> Row(i, f[i])] : f \in [1..k -> links]} : k \in 0..n}

AbstractExample == <<"<", "p", ">", "<", "a", " ", "h", "r", "e", "f", "=", "\"", "h", "\"", ">", "x", "<", "/", "a", ">", "<", "/", "p", ">", "R", "e", "a", "l", " ", "t", "e", "x", "t", ".">>
AbstractStripped == <<"<", "p", ">", "<", "/", "p", ">", "R", "e", "a", "l", " ", "t", "e", "x", "t", ".">>
RealText == <<"R", "e", "a", "l", " ", "t", "e", "x", "t", ".">>

\* a document as ArcGIS serves it: an abstract that starts with a link, use
\* terms, a thumbnail, no distribution info
DocA ==
    Elem(T_metadata, NoText,
         <<Elem(T_dataIdInfo, NoText,
                <<Elem(T_idAbs, AbstractExample, <<>>),
                  Elem(T_resConst, NoText,
                       <<Elem(T_Consts, NoText,
                              <<Elem(T_useLimit, <<"C", "C", "0">>, <<>>)>>)>>)>>),
           Elem(T_Binary, NoText,
                <<Elem(T_Thumbnail, NoText, <<Elem(T_Data, <<"b">>, <<>>)>>)>>)>>)

\* a document that already has distribution info, and no thumbnail
DocB ==
    Elem(T_metadata, NoText,
         <<Elem(T_distInfo, NoText,
                <<Elem(T_distTranOps, NoText,
                       <<Elem(T_onLineSrc, NoText,
                              <<Elem(T_linkage, <<"o", "l", "d">>, <<>>)>>)>>)>>),
           Elem(T_dataIdInfo, NoText, <<Elem(T_idAbs, RealText, <<>>)>>)>>)

\* response.content: XML that ET.fromstring parses into doc, or bytes on
\* which it raises ParseError
WellFormed(doc) == [wellformed |-> TRUE, doc |-> doc]
Malformed == [wellformed |-> FALSE, doc |-> Element(<<>>)]

BatchDocs == {DocA, DocB}

(***************************************************************************)
(* The log: what the run does that can be seen from outside, in order.     *)
(*   ev   the call made ("GET", "POST"), how it ended ("returned",         *)
(*        "raised") or the line printed                                    *)
(*   rec  the row it belongs to (0: none)                                  *)
(*   n    the status code, or the item id of line 187                      *)
(*   data the JSON body of a publish POST, the stage of an Error line      *)
(***************************************************************************)

Ev(ev, rec, n) == [ev |-> ev, rec |-> rec, n |-> n, data |-> <<>>]

EvData(ev, rec, data) == [ev |-> ev, rec |-> rec, n |-> 0, data |-> data]

\* the metadata endpoint answers row r's GET with status 200 and this content
Resp(r, content) == [ev |-> "GET returned", rec |-> r, n |-> HTTP_OK, data |-> content]

\* the lines of 121, 128, 138 (once per container removed) and 176
RECURSIVE Repeat(_, _)
Repeat(x, n) == IF n = 0 THEN <<>> ELSE <<x>> \o Repeat(x, n - 1)

EditLines(r, doc) ==
    LET edited  == EditUseLimits(EditAbstracts(doc, 0, TRUE), 0, TRUE)
        removed == Len(edited.children) - Len(removeThumbnailBlock(edited).children)
    IN  <<Ev("Edited XML abstract", r, 0), Ev("Edited XML use terms", r, 0)>>
        \o Repeat(Ev("Removed thumbnail", r, 0), removed)
        \o <<Ev("Added/edited distribution info", r, 0)>>

\* inport_update of lines 193-198; xml is ET.tostring(root): the document
\* that the text denotes
inport_update(row, doc) ==
    [sessionId   |-> session_id,
     catId       |-> IntOf(id_match(row.link)),
     transformId |-> TransformId,
     xml         |-> editDocument(doc, row.rest_url)]

(***************************************************************************)
(* Obtain InPort session ID: lines 56-74.                                  *)
(***************************************************************************)

SessionFailed(events) ==
    /\ session_id' = None
    /\ log' = log \o events

\* inport_session_url is not defined: line 70
SessionUrlMissing ==
    SessionFailed(<<Ev("Error: inport_session_url was not defined", 0, 0)>>)

\* requests.post raises: line 71
SessionPostRaises ==
    SessionFailed(<<Ev("POST session", 0, 0), Ev("POST session raised", 0, 0),
                    Ev("An error occurred during the request", 0, 0)>>)

\* raise_for_status raises on an error status: lines 64, 71
SessionHttpError ==
    \E code \in {401} :
        SessionFailed(<<Ev("POST session", 0, 0), Ev("POST session returned", 0, code),
                        Ev("An error occurred during the request", 0, 0)>>)

\* response.json() raises, or data is no dict: lines 66-67, 71-74
SessionBadBody ==
    SessionFailed(<<Ev("POST session", 0, 0), Ev("POST session returned", 0, HTTP_OK),
                    Ev("An unexpected error occurred", 0, 0)>>)

\* data.get('sessionId') of a body without that key is None: lines 67-68
SessionKeyMissing ==
    SessionFailed(<<Ev("POST session", 0, 0), Ev("POST session returned", 0, HTTP_OK),
                    Ev("InPort session ID obtained", 0, 0)>>)

SessionObtained ==
    \E token \in Tokens :
        /\ session_id' = token
        /\ log' = log \o <<Ev("POST session", 0, 0), Ev("POST session returned", 0, HTTP_OK),
                           Ev("InPort session ID obtained", 0, 0)>>

AcquireSession ==
    /\ pc = "session"
    /\ \/ SessionUrlMissing
       \/ SessionPostRaises
       \/ SessionHttpError
       \/ SessionBadBody
       \/ SessionKeyMissing
       \/ SessionObtained
    /\ pc' = "loop"
    /\ UNCHANGED <<columns_ok, df_subset, index, fn_vars>>

(***************************************************************************)
(* One round of the loop of lines 92-205, by the way it ends.              *)
(***************************************************************************)

\* the round takes row index + 1 and appends events to the log
Round(events) ==
    /\ index' = index + 1
    /\ log' = log \o events
    /\ pc' = "loop"
    /\ UNCHANGED <<columns_ok, df_subset, session_id, fn_vars>>

HasRow == pc = "loop" /\ index < Len(df_subset)

\* lines 99-103: the print and the GET
Started(r) == <<Ev("Starting update", r, 0), Ev("GET", r, 0)>>

\* lines 93-96 stand before the try: a KeyError of row['file_id'],
\* row['rest_url'] or row['link'] ends the script
ReadRowRaises ==
    /\ HasRow
    /\ ~columns_ok
    /\ pc' = "aborted"
    /\ log' = log \o <<Ev("Traceback: KeyError", index + 1, 0)>>
    /\ UNCHANGED <<columns_ok, df_subset, session_id, index, fn_vars>>

\* requests.get raises: line 103, caught at line 204
FetchRaises ==
    /\ HasRow /\ columns_ok
    /\ LET r == index + 1
       IN  Round(Started(r) \o <<Ev("GET raised", r, 0), EvData("Error", r, "fetch")>>)

\* lines 105-107 with break in the place of continue
FetchNot200Breaks ==
    /\ HasRow /\ columns_ok
    /\ \E code \in FetchFailCodes :
        LET r == index + 1
        IN  /\ index' = index + 1
            /\ log' = log \o Started(r)
                          \o <<Ev("GET returned", r, code),
                               Ev("Failed to fetch XML", r, code),
                               Ev("All AGOL XML items updated on InPort", 0, 0)>>
            /\ pc' = "done"
            /\ UNCHANGED <<columns_ok, df_subset, session_id, fn_vars>>

\* lines 105-107
FetchNot200 ==
    /\ HasRow /\ columns_ok
    /\ \E code \in FetchFailCodes :
        LET r == index + 1
        IN  Round(Started(r) \o <<Ev("GET returned", r, code),
                                  Ev("Failed to fetch XML", r, code)>>)

\* ET.fromstring raises: line 109, caught at line 204
ParseRaises ==
    /\ HasRow /\ columns_ok
    /\ LET r == index + 1
       IN  Round(Started(r) \o <<Resp(r, Malformed),
                                 EvData("Error", r, "parse")>>)

\* the events of lines 103-176 for a document that parses
Edited(r, doc) ==
    Started(r) \o <<Resp(r, WellFormed(doc))>> \o EditLines(r, doc)

\* lines 188-190 without the continue
SkipNoIdStillPosts ==
    /\ HasRow /\ columns_ok
    /\ id_match(df_subset[index + 1].link) = <<>>
    /\ \E doc \in BatchDocs, code \in PublishCodes :
        LET r == index + 1
        IN  Round(Edited(r, doc)
                  \o <<Ev("Skipping: InPort ID not found", r, 0),
                       EvData("POST", r, inport_update(df_subset[r], doc)),
                       Ev("POST returned", r, code),
                       Ev("InPort Status Code", r, code),
                       Ev("InPort Errors and Warnings", r, 0)>>)

\* lines 188-190
SkipNoId ==
    /\ HasRow /\ columns_ok
    /\ id_match(df_subset[index + 1].link) = <<>>
    /\ \E doc \in BatchDocs :
        LET r == index + 1
        IN  Round(Edited(r, doc) \o <<Ev("Skipping: InPort ID not found", r, 0)>>)

\* lines 185-200: the id line and the POST
Posted(r, doc) ==
    Edited(r, doc)
    \o <<Ev("Updating InPort item ID", r, IntOf(id_match(df_subset[r].link))),
         EvData("POST", r, inport_update(df_subset[r], doc))>>

\* requests.post raises: line 200, caught at line 204
PublishRaises ==
    /\ HasRow /\ columns_ok
    /\ id_match(df_subset[index + 1].link) # <<>>
    /\ \E doc \in BatchDocs :
        LET r == index + 1
        IN  Round(Posted(r, doc) \o <<Ev("POST raised", r, 0),
                                      EvData("Error", r, "publish")>>)

\* lines 200-202 with update.raise_for_status() after the POST
PublishReturnsChecked ==
    /\ HasRow /\ columns_ok
    /\ id_match(df_subset[index + 1].link) # <<>>
    /\ \E doc \in BatchDocs, code \in PublishCodes :
        LET r == index + 1
        IN  IF code >= 400
            THEN Round(Posted(r, doc) \o <<Ev("POST returned", r, code),
                                           EvData("Error", r, "publish")>>)
            ELSE Round(Posted(r, doc) \o <<Ev("POST returned", r, code),
                                           Ev("InPort Status Code", r, code),
                                           Ev("InPort Errors and Warnings", r, 0)>>)

\* lines 200-202: whatever the status code
PublishReturns ==
    /\ HasRow /\ columns_ok
    /\ id_match(df_subset[index + 1].link) # <<>>
    /\ \E doc \in BatchDocs, code \in PublishCodes :
        LET r == index + 1
        IN  Round(Posted(r, doc) \o <<Ev("POST returned", r, code),
                                      Ev("InPort Status Code", r, code),
                                      Ev("InPort Errors and Warnings", r, 0)>>)

\* line 207
Finish ==
    /\ pc = "loop"
    /\ index = Len(df_subset)
    /\ pc' = "done"
    /\ log' = log \o <<Ev("All AGOL XML items updated on InPort", 0, 0)>>
    /\ UNCHANGED <<columns_ok, df_subset, session_id, index, fn_vars>>

\* a run of the script applies no edit on its own
FnIdle == fn = "none" /\ fn_in = <<>> /\ fn_out = <<>> /\ fn_calls = 0

InitRun(rows) ==
    /\ columns_ok \in BOOLEAN
    /\ df_subset \in rows
    /\ session_id = None
    /\ pc = "session"
    /\ index = 0
    /\ log = <<>>
    /\ FnIdle

Init == InitRun(RowLists(BatchLinks, MaxRecords))

Next ==
    \/ AcquireSession
    \/ ReadRowRaises
    \/ FetchRaises
    \/ FetchNot200
    \/ ParseRaises
    \/ SkipNoId
    \/ PublishRaises
    \/ PublishReturns
    \/ Finish

Spec == Init /\ [][Next]_vars

(***************************************************************************)
(* Runs over one row whose link is any string put together from a few      *)
(* pieces, for the reading of the item id.                                 *)
(***************************************************************************)

\* pieces in a link at most
MaxLinkPieces == 3

LinkPieces ==
    {<<"x">>, <<"4">>, <<"0">>, L_item, <<"/", "i", "t", "e", "m">>}

PieceLists(pieces, n) == UNION {[1..k -> pieces] : k \in 0..n}

GenLinks ==
    {Flatten(ps) : ps \in PieceLists(LinkPieces, MaxLinkPieces)}
    \cup {LinkWithId, LinkNoId, LinkZeroId, LinkTwoIds}

InitId == InitRun({<<Row(1, link)>> : link \in GenLinks})

SpecId == InitId /\ [][Next]_vars

(***************************************************************************)
(* Runs of one edit on one document, as the loop applies it.               *)
(***************************************************************************)

\* no run of the script is under way
RunIdle ==
    /\ columns_ok = TRUE
    /\ df_subset = <<>>
    /\ session_id = None
    /\ pc = "edit"
    /\ index = 0
    /\ log = <<>>

InitEdit(name, inputs) ==
    /\ RunIdle
    /\ fn = name
    /\ fn_in \in inputs
    /\ fn_out = <<>>
    /\ fn_calls = 0

\* the edit was applied, with this result
Applied(result) ==
    /\ fn_out' = Append(fn_out, result)
    /\ fn_calls' = fn_calls + 1
    /\ UNCHANGED <<batch_vars, fn, fn_in>>

\* ---- the abstract

\* pieces in an abstract at most
MaxPieces == 4

A_space   == <<" ">>
A_p       == <<"<", "p", ">">>
A_anchor  == <<"<", "a", " ", "h", "r", "e", "f", "=", "\"", "h", "\"", ">", "x", "<", "/", "a", ">">>
A_ANCHOR  == <<"<", "A", " ", " ", "H", "R", "E", "F", "=", "\"", "\"", ">", "x", "<", "/", "A", ">">>
A_link    == <<"<", "a", " ", "h", "r", "e", "f", "=", "\"", "h", "\"", ">">>
A_endlink == <<"<", "/", "a", ">">>
A_br      == <<"<", "b", "r", "/", ">">>
A_x       == <<"x">>
A_endp    == <<"<", "/", "p", ">">>

AbstractPieces ==
    {A_space, A_p, A_anchor, A_ANCHOR, A_link, A_endlink, A_br, A_x}

\* the abstract '<p><a href="h">x</a></p>Real text.' in pieces
ExamplePieces == <<A_p, A_anchor, A_endp, RealText>>

\* an abstract is given by its pieces, the text being their concatenation
AbstractInputs ==
    (PieceLists(AbstractPieces, MaxPieces) \ {<<>>}) \cup {ExamplePieces}

\* the document with this abstract
DocWithAbstract(text) ==
    Elem(T_metadata, NoText,
         <<Elem(T_dataIdInfo, NoText, <<Elem(T_idAbs, text, <<>>)>>)>>)

\* lines 114-120 on the document with the abstract fn_in
ApplyAbstract ==
    /\ fn = "abstract"
    /\ fn_calls = 0
    /\ Applied(EditAbstracts(DocWithAbstract(Flatten(fn_in)), 0, TRUE)
                  .children[1].children[1].text)

InitAbstract == InitEdit("abstract", AbstractInputs)

SpecAbstract == InitAbstract /\ [][ApplyAbstract]_vars

\* ---- the use limit

\* characters in a use limit at most
MaxLimitLen == 270

\* a text of n characters, the character at i set by i and the stride
LimitText(n, stride) ==
    [i \in 1..n |-> IF (i * stride) % 3 = 0 THEN "a"
                    ELSE IF (i * stride) % 3 = 1 THEN "b" ELSE "."]

LimitInputs == {LimitText(n, stride) : n \in 0..MaxLimitLen, stride \in {1, 2}}

\* the document with these use terms
DocWithUseLimit(text) ==
    Elem(T_metadata, NoText,
         <<Elem(T_dataIdInfo, NoText,
                <<Elem(T_resConst, NoText,
                       <<Elem(T_Consts, NoText,
                              <<Elem(T_useLimit, text, <<>>)>>)>>)>>)>>)

\* lines 124-127 on the document with the use terms fn_in
ApplyUseLimit ==
    /\ fn = "uselimit"
    /\ fn_calls = 0
    /\ Applied(EditUseLimits(DocWithUseLimit(fn_in), 0, TRUE)
                  .children[1].children[1].children[1].children[1].text)

InitUseLimit == InitEdit("uselimit", LimitInputs)

SpecUseLimit == InitUseLimit /\ [][ApplyUseLimit]_vars

\* ---- the thumbnail

\* children of the root at most
MaxChildren == 3

T_esriBinary == <<"e", "s", "r", "i", "B", "i", "n", "a", "r", "y">>
T_smallThumbnail == <<"s", "m", "a", "l", "l", "T", "h", "u", "m", "b", "n", "a", "i", "l">>

Leaf(tag) == Elem(tag, <<"b">>, <<>>)

\* <Binary><Thumbnail><Data>
BinaryWithThumbnail ==
    Elem(T_Binary, NoText, <<Elem(T_Thumbnail, NoText, <<Leaf(T_Data)>>)>>)

\* a thumbnail deeper down, under tags that only end as the code asks
BinaryWithDeepThumbnail ==
    Elem(T_esriBinary, NoText,
         <<Elem(T_Esri, NoText, <<Leaf(T_smallThumbnail)>>)>>)

\* a container without a thumbnail
BinaryWithoutThumbnail == Elem(T_Binary, NoText, <<Leaf(T_Data)>>)

\* a thumbnail outside any container
BareThumbnail == Elem(T_Thumbnail, NoText, <<Leaf(T_Data)>>)

\* a thumbnail under a child that is no container
EsriWithThumbnail == Elem(T_Esri, NoText, <<Leaf(T_Thumbnail)>>)

RootChildren ==
    {BinaryWithThumbnail, BinaryWithDeepThumbnail, BinaryWithoutThumbnail,
     BareThumbnail, EsriWithThumbnail, Element(T_dataIdInfo)}

ThumbnailInputs ==
    {Elem(T_metadata, NoText, cs) : cs \in PieceLists(RootChildren, MaxChildren)}

\* lines 133-139 on the document fn_in
ApplyThumbnail ==
    /\ fn = "thumbnail"
    /\ fn_calls = 0
    /\ Applied(removeThumbnailBlock(fn_in))

InitThumbnail == InitEdit("thumbnail", ThumbnailInputs)

SpecThumbnail == InitThumbnail /\ [][ApplyThumbnail]_vars

\* ---- the distribution info

\* children of the root at most, for the distribution info
MaxDistChildren == 2

\* times the edit is applied to a document at most
MaxCalls == 2

OldText == <<"o", "l", "d">>

OnLine(text) ==
    Elem(T_distTranOps, NoText,
         <<Elem(T_onLineSrc, NoText, <<Elem(T_linkage, text, <<>>)>>)>>)

Format(text) ==
    Elem(T_distFormat, NoText, <<Elem(T_formatName, text, <<>>)>>)

DistChildren ==
    {Element(T_dataIdInfo),
     Element(T_distInfo),
     Elem(T_distInfo, NoText, <<Element(T_distTranOps)>>),
     Elem(T_distInfo, NoText, <<Format(OldText)>>),
     Elem(T_distInfo, NoText, <<OnLine(OldText), Format(OldText)>>),
     Elem(T_distInfo, NoText, <<Format(OldText), OnLine(OldText), OnLine(OldText)>>),
     Elem(T_linkage, OldText, <<>>)}

\* a document and the rest_url of its row
DistInputs ==
    {[doc |-> Elem(T_metadata, NoText, cs), rest_url |-> u] :
        cs \in PieceLists(DistChildren, MaxDistChildren),
        u \in {REST_URL, OldText}}

\* the document as it stands: fn_in.doc, or the result of the last edit
Current == IF fn_calls = 0 THEN fn_in.doc ELSE fn_out[fn_calls]

\* lines 143-174 on the document as it stands
ApplyDistInfo ==
    /\ fn = "distinfo"
    /\ fn_calls < MaxCalls
    /\ Applied(upsertDistributionInfo(Current, fn_in.rest_url))

InitDistInfo == InitEdit("distinfo", DistInputs)

SpecDistInfo == InitDistInfo /\ [][ApplyDistInfo]_vars

(***************************************************************************)
(* Reading the log                                                         *)
(***************************************************************************)

Rows == 1..Len(df_subset)

\* the places of the log where row r has the event ev
Pos(ev, r) == {p \in 1..Len(log) : log[p].ev = ev /\ log[p].rec = r}

Has(ev, r) == Pos(ev, r) # {}

Once(ev, r) == Cardinality(Pos(ev, r)) = 1

\* the place of an event that row r has once
The(ev, r) == CHOOSE p \in Pos(ev, r) : TRUE

\* the lines a round ends with
TerminalLines ==
    {"Failed to fetch XML", "Skipping: InPort ID not found",
     "InPort Status Code", "Error"}

TerminalPos(r) ==
    {p \in 1..Len(log) : log[p].rec = r /\ log[p].ev \in TerminalLines}

\* the outcome a terminal line stands for
OutcomeOf(e) ==
    CASE e.ev = "Failed to fetch XML" -> "SkippedFetch"
      [] e.ev = "Skipping: InPort ID not found" -> "SkippedNoId"
      [] e.ev = "InPort Status Code" -> "Success"
      [] e.ev = "Error" ->
            (CASE e.data = "fetch" -> "FetchError"
               [] e.data = "parse" -> "TransformError"
               [] e.data = "publish" -> "PublishError")

\* row r has one terminal line, and it stands for outcome o
EndsIn(r, o) ==
    /\ Cardinality(TerminalPos(r)) = 1
    /\ \A p \in TerminalPos(r) : OutcomeOf(log[p]) = o

\* the events of parsing, editing and publishing
EditEvents ==
    {"Edited XML abstract", "Edited XML use terms", "Removed thumbnail",
     "Added/edited distribution info", "Updating InPort item ID"}

PublishEvents ==
    {"POST", "POST returned", "POST raised", "InPort Status Code",
     "InPort Errors and Warnings"}

\* the GET of row k was answered with a status other than 200
FetchFailed(k) ==
    \E p \in Pos("GET returned", k) : log[p].n # HTTP_OK

\* the terminal lines of the log, in order, as rows
TerminalRows ==
    LET t == SelectSeq(log, LAMBDA e : e.rec # 0 /\ e.ev \in TerminalLines)
    IN  [i \in 1..Len(t) |-> t[i].rec]

\* the script is over: it printed its last line, or died of an exception
RunOver == pc \in {"done", "aborted"}

\* every row of rows was fetched once
AllFetched(rows) == \A j \in rows : Once("GET", j)

(***************************************************************************)
(* Claims about the loop                                                   *)
(***************************************************************************)

\* C1: when the GET of row k returns a status other than 200, row k ends
\* in SkippedFetch with nothing parsed, edited or published for it, the
\* rows after k are still fetched, each once, and a row ends in
\* SkippedFetch only if its own GET returned a status other than 200.
C1_FetchFailureSkipsOnlyThatRow ==
    /\ \A k \in Rows :
        FetchFailed(k) =>
            /\ EndsIn(k, "SkippedFetch")
            /\ \A p \in 1..Len(log) :
                log[p].rec = k => log[p].ev \notin EditEvents \cup PublishEvents
            /\ pc # "aborted"
            /\ pc = "loop" => ENABLED Next
            /\ pc = "done" => AllFetched((k + 1)..Len(df_subset))
    /\ \A j \in Rows : Has("Failed to fetch XML", j) => FetchFailed(j)

\* C1 witness: row 1 failed its fetch and row 2 went on to be published
C1_Witness ==
    /\ pc = "done"
    /\ Len(df_subset) >= 2
    /\ FetchFailed(1)
    /\ EndsIn(1, "SkippedFetch")
    /\ EndsIn(2, "Success")

\* C2: no exception raised while a row is processed, the reading of the
\* row's fields included, ends the script: every run ends with one terminal
\* line per row, in the order of the rows, and the summary line.
C2_EveryErrorIsCaught ==
    /\ pc # "aborted"
    /\ pc = "done" =>
        /\ TerminalRows = [i \in 1..Len(df_subset) |-> i]
        /\ log[Len(log)].ev = "All AGOL XML items updated on InPort"

\* C4: a row whose publish POST returned, with whatever status code, ends
\* in Success, the code only being printed; an Error line of the publish
\* stage appears only when the POST raised; the rows after it are fetched.
C4_PublishStatusIsOnlyLogged ==
    \A r \in Rows :
        /\ \A p \in Pos("POST returned", r) :
            /\ EndsIn(r, "Success")
            /\ ~Has("Error", r)
            /\ p < Len(log)
            /\ log[p + 1] = Ev("InPort Status Code", r, log[p].n)
            /\ pc # "aborted"
            /\ pc = "loop" => ENABLED Next
            /\ pc = "done" => AllFetched((r + 1)..Len(df_subset))
        /\ (\E p \in Pos("Error", r) : log[p].data = "publish")
              <=> Has("POST raised", r)

\* C4 witness: the publish of row 1 returned 500, row 1 ended in Success
\* and row 2 was published after it
C4_Witness ==
    /\ pc = "done"
    /\ Len(df_subset) >= 2
    /\ \E p \in Pos("POST returned", 1) : log[p].n = 500
    /\ EndsIn(1, "Success")
    /\ EndsIn(2, "Success")

\* the session endpoint handed out a session id
Acquired ==
    \E p \in 1..Len(log) :
        /\ log[p].ev = "InPort session ID obtained"
        /\ session_id \in Tokens

\* C5: the session id is asked for once at most, before the first row; every
\* publish POST carries the value session_id has after that; when the
\* acquisition failed that value is None, and the run still processes every
\* row.
C5_SessionAcquiredOnce ==
    /\ Cardinality(Pos("POST session", 0)) <= 1
    /\ pc = "session" => log = <<>>
    /\ \A p \in 1..Len(log) :
        log[p].ev = "POST" => log[p].data.sessionId = session_id
    /\ (pc # "session" /\ ~Acquired) => session_id = None
    /\ (RunOver /\ session_id = None) =>
        \A r \in Rows : Cardinality(TerminalPos(r)) = 1

\* C10: a row has one GET and one POST at most; its POST comes after its GET
\* returned 200 with a document that parsed, after the edit lines and the id
\* line, and only for a link that holds an id; a row whose link holds none
\* ends in SkippedNoId without a POST; and no event of a row comes before
\* the terminal line of the row before it.
C10_FetchThenEditThenPublish ==
    \A r \in Rows :
        LET evs  == SelectSeq(log, LAMBDA e : e.rec = r)
            at(ev) == {i \in 1..Len(evs) : evs[i].ev = ev}
            once(ev) == Cardinality(at(ev)) = 1
            before(a, b) == \A i \in at(a), j \in at(b) : i < j
            noid == id_match(df_subset[r].link) = <<>>
        IN  /\ Cardinality(at("GET")) <= 1
            /\ Cardinality(at("POST")) <= 1
            /\ at("POST") # {} =>
                /\ ~noid
                /\ once("GET")
                /\ once("GET returned")
                /\ \A i \in at("GET returned") :
                    evs[i].n = HTTP_OK /\ evs[i].data.wellformed
                /\ once("Edited XML abstract")
                /\ once("Edited XML use terms")
                /\ once("Added/edited distribution info")
                /\ once("Updating InPort item ID")
                /\ before("GET", "GET returned")
                /\ before("GET returned", "Edited XML abstract")
                /\ before("Edited XML abstract", "Edited XML use terms")
                /\ before("Edited XML use terms", "Removed thumbnail")
                /\ before("Edited XML use terms", "Added/edited distribution info")
                /\ before("Removed thumbnail", "Added/edited distribution info")
                /\ before("Added/edited distribution info", "Updating InPort item ID")
                /\ before("Updating InPort item ID", "POST")
            /\ noid => at("POST") = {}
            /\ (noid /\ at("Added/edited distribution info") # {})
                 => EndsIn(r, "SkippedNoId")
            /\ \A p \in 1..Len(log) :
                log[p].rec = r + 1 =>
                    \E t \in 1..(p - 1) :
                        log[t].rec = r /\ log[t].ev \in TerminalLines

\* C10 witness: row 1 was edited and skipped for want of an id, and row 2
\* was fetched, edited and published
C10_Witness ==
    /\ Len(df_subset) >= 2
    /\ EndsIn(1, "SkippedNoId")
    /\ ~Has("POST", 1)
    /\ EndsIn(2, "Success")

(***************************************************************************)
(* Claims about the item id                                                *)
(***************************************************************************)

\* the marker /item/ stands at p and a digit follows it
MarkerAt(link, p) ==
    /\ p + Len(L_item) <= Len(link)
    /\ SubSeq(link, p, p + Len(L_item) - 1) = L_item
    /\ IsDigit(link[p + Len(L_item)])

HoldsId(link) == \E p \in 1..Len(link) : MarkerAt(link, p)

RECURSIVE Decimal(_, _, _)
\* the number that the digits link[a..b] write
Decimal(link, a, b) ==
    IF a > b THEN 0
    ELSE DigitVal(link[a]) * 10 ^ (b - a) + Decimal(link, a + 1, b)

\* the number written by the whole run of digits after the first marker
\* that a digit follows
IdOf(link) ==
    LET p == CHOOSE p \in 1..Len(link) :
                 MarkerAt(link, p) /\ \A q \in 1..(p - 1) : ~MarkerAt(link, q)
        a == p + Len(L_item)
        b == CHOOSE b \in a..Len(link) :
                 /\ \A k \in a..b : IsDigit(link[k])
                 /\ b = Len(link) \/ ~IsDigit(link[b + 1])
    IN  Decimal(link, a, b)

\* the catId of every publish POST is the number after the first /item/ of
\* the row's link that digits follow, and a row whose link holds no such
\* marker gets no POST
CatIdIsTheCapture ==
    /\ \A p \in 1..Len(log) :
        log[p].ev = "POST" =>
            LET link == df_subset[log[p].rec].link
            IN  /\ HoldsId(link)
                /\ log[p].data.catId = IdOf(link)
                /\ link = LinkWithId => log[p].data.catId = 4521
    /\ \A r \in Rows :
        ~HoldsId(df_subset[r].link) =>
            /\ ~Has("POST", r)
            /\ ~Has("Updating InPort item ID", r)
            /\ Has("Added/edited distribution info", r) => EndsIn(r, "SkippedNoId")

\* C7 as amended: the catId of a publish request is a natural number, zero
\* included, equal to the digits after the first /item/ marker that digits
\* follow; a link without one gives no id and no publish request.
C7_CatIdIsNaturalCapture ==
    /\ CatIdIsTheCapture
    /\ \A p \in 1..Len(log) : log[p].ev = "POST" => log[p].data.catId \in Nat

\* C7 as stated: the catId of a publish request is a positive integer, equal
\* to the digits after the /item/ marker; a link without one gives absence.
C7_CatIdIsPositiveCapture ==
    /\ CatIdIsTheCapture
    /\ \A p \in 1..Len(log) : log[p].ev = "POST" => log[p].data.catId > 0

\* C7 witness: the link https://x/item/4521 was published with catId 4521
C7_Witness ==
    /\ Len(df_subset) = 1
    /\ df_subset[1].link = LinkWithId
    /\ \E p \in Pos("POST", 1) : log[p].data.catId = 4521
    /\ EndsIn(1, "Success")

(***************************************************************************)
(* Claims about the abstract                                               *)
(***************************************************************************)

IsSpacePiece(x) == x = A_space
OpensLink(x) == x \in {A_anchor, A_ANCHOR, A_link}
EndsLink(x) == x \in {A_anchor, A_ANCHOR, A_endlink}
WholeLink(x) == x \in {A_anchor, A_ANCHOR}

AllSpace(ps, a, b) == \A i \in a..b : IsSpacePiece(ps[i])

\* ps[a..b] is whitespace, then one piece that satisfies Mid or none, then
\* whitespace
Around(ps, a, b, Mid(_)) ==
    \E k \in (a - 1)..b :
        /\ AllSpace(ps, a, k)
        /\ k = b \/ (Mid(ps[k + 1]) /\ AllSpace(ps, k + 2, b))

\* the last piece of the longest stretch from a that is whitespace around
\* one optional Mid piece
AroundEnd(ps, a, Mid(_)) ==
    CHOOSE b \in (a - 1)..Len(ps) :
        /\ Around(ps, a, b, Mid)
        /\ \A m \in (b + 1)..Len(ps) : ~Around(ps, a, m, Mid)

\* the pieces before the links: whitespace and the opening paragraph tag
LeadLen(ps) == AroundEnd(ps, 1, LAMBDA x : x = A_p)

\* a link construct starts at a: an anchor that is closed somewhere
LinkAt(ps, a) ==
    /\ a <= Len(ps)
    /\ OpensLink(ps[a])
    /\ \E c \in a..Len(ps) : EndsLink(ps[c]) /\ (c = a => WholeLink(ps[a]))

\* the last piece of the link construct that starts at a: the anchor up to
\* its first closing tag, the line break after it, the whitespace around
LinkEnd(ps, a) ==
    LET c == CHOOSE c \in a..Len(ps) :
                 /\ EndsLink(ps[c]) /\ (c = a => WholeLink(ps[a]))
                 /\ \A i \in a..(c - 1) : ~(EndsLink(ps[i]) /\ (i = a => WholeLink(ps[a])))
    IN  AroundEnd(ps, c + 1, LAMBDA x : x = A_br)

RECURSIVE LinksEnd(_, _)
\* the last piece of the run of link constructs that starts at a
LinksEnd(ps, a) ==
    IF LinkAt(ps, a) THEN LinksEnd(ps, LinkEnd(ps, a) + 1) ELSE a - 1

\* an abstract that leads with links loses the run of link constructs and
\* keeps what stands before and after it; any other abstract is unchanged
StripsTheLeadingRun ==
    fn_calls = 1 =>
        LET ps == fn_in
            g  == LeadLen(ps)
        IN  IF LinkAt(ps, g + 1)
            THEN fn_out[1] =
                    Flatten(SubSeq(ps, 1, g))
                    \o Flatten(SubSeq(ps, LinksEnd(ps, g + 1) + 1, Len(ps)))
            ELSE fn_out[1] = Flatten(ps)

\* C8 as amended: stripLeadingLinks removes the leading run of link
\* constructs, each with the line break and the whitespace that follow it,
\* keeps the whitespace and the opening paragraph tag before the run and
\* everything after it, links in the middle of the text included; a text
\* without a leading link is unchanged; '<p><a href="h">x</a></p>Real text.'
\* becomes '<p></p>Real text.'.
C8_StripKeepsParagraphTag ==
    /\ StripsTheLeadingRun
    /\ (fn_calls = 1 /\ fn_in = ExamplePieces) => fn_out[1] = AbstractStripped

\* C8 as stated: the same, and '<p><a href="h">x</a></p>Real text.' becomes
\* 'Real text.'.
C8_StripYieldsRealText ==
    /\ StripsTheLeadingRun
    /\ (fn_calls = 1 /\ fn_in = ExamplePieces) => fn_out[1] = RealText

\* C8 witness: two leading links were stripped and the link in the middle of
\* the text was kept
C8_Witness ==
    /\ fn_calls = 1
    /\ fn_in = <<A_anchor, A_ANCHOR, A_x, A_anchor>>
    /\ fn_out[1] = A_x \o A_anchor

(***************************************************************************)
(* Claims about the use limit                                              *)
(***************************************************************************)

\* C9: a use limit of 267 characters or more becomes its first 267
\* characters and a period, 268 characters; a shorter one becomes the whole
\* text and a period; an element without text is left without text.
C9_TruncateTo267AndPeriod ==
    fn_calls = 1 =>
        /\ Len(fn_in) >= 267 =>
            /\ Len(fn_out[1]) = 268
            /\ SubSeq(fn_out[1], 1, 267) = SubSeq(fn_in, 1, 267)
            /\ fn_out[1][268] = "."
        /\ (Len(fn_in) < 267 /\ fn_in # NoText) =>
            /\ Len(fn_out[1]) = Len(fn_in) + 1
            /\ fn_out[1] = fn_in \o <<".">>
        /\ fn_in = NoText => fn_out[1] = NoText

\* C9 witness: a text of more than 267 characters was cut to 268
C9_Witness ==
    /\ fn_calls = 1
    /\ Len(fn_in) > 267
    /\ Len(fn_out[1]) = 268
    /\ fn_out[1][267] = fn_in[267]

(***************************************************************************)
(* Claims about the thumbnail                                              *)
(***************************************************************************)

RECURSIVE HoldsThumbnail(_)
\* the element or one below it has a tag that ends with Thumbnail
HoldsThumbnail(e) ==
    \/ EndsWith(e.tag, T_Thumbnail)
    \/ \E i \in 1..Len(e.children) : HoldsThumbnail(e.children[i])

\* a child of the root that the loop is after
ThumbnailContainer(c) == EndsWith(c.tag, T_Binary) /\ HoldsThumbnail(c)

Containers(doc) ==
    {i \in 1..Len(doc.children) : ThumbnailContainer(doc.children[i])}

\* seq without its element at i
Without(seq, i) == SubSeq(seq, 1, i - 1) \o SubSeq(seq, i + 1, Len(seq))

\* C3 as amended: removeThumbnailBlock removes every child of the root whose
\* tag ends with Binary and that holds a descendant whose tag ends with
\* Thumbnail, the second and the later ones as well as the first; the other
\* children stay, in their order, and a document without such a container
\* keeps all its children.
C3_RemovesEveryThumbnailContainer ==
    fn_calls = 1 =>
        /\ fn_out[1].children =
              SelectSeq(fn_in.children, LAMBDA c : ~ThumbnailContainer(c))
        /\ fn_out[1].tag = fn_in.tag
        /\ fn_out[1].text = fn_in.text
        /\ Containers(fn_in) = {} => fn_out[1] = fn_in

\* C3 as stated: removeThumbnailBlock removes one container at most, the
\* first that holds a thumbnail, and the others stay; without such a
\* container the children are unchanged.
C3_RemovesOnlyFirstContainer ==
    fn_calls = 1 =>
        /\ Len(fn_in.children) - Len(fn_out[1].children) <= 1
        /\ Containers(fn_in) # {} =>
            fn_out[1].children =
                Without(fn_in.children,
                        CHOOSE i \in Containers(fn_in) :
                            \A j \in Containers(fn_in) : i <= j)
        /\ Containers(fn_in) = {} => fn_out[1] = fn_in

\* C3 witness: of three containers the two with a thumbnail were removed
C3_Witness ==
    /\ fn_calls = 1
    /\ fn_in.children =
          <<BinaryWithThumbnail, BinaryWithoutThumbnail, BinaryWithDeepThumbnail>>
    /\ fn_out[1].children = <<BinaryWithoutThumbnail>>

(***************************************************************************)
(* Claims about the distribution info                                      *)
(***************************************************************************)

RECURSIVE CountTag(_, _)
RECURSIVE CountTagAll(_, _)
\* the elements of the tree e with this tag
CountTag(e, tag) ==
    (IF e.tag = tag THEN 1 ELSE 0) + CountTagAll(e.children, tag)
CountTagAll(es, tag) ==
    IF es = <<>> THEN 0 ELSE CountTag(Head(es), tag) + CountTagAll(Tail(es), tag)

\* the first child of e with this tag
First(e, tag) ==
    e.children[CHOOSE i \in 1..Len(e.children) :
                   /\ e.children[i].tag = tag
                   /\ \A j \in 1..(i - 1) : e.children[j].tag # tag]

HasChild(e, tag) == \E i \in 1..Len(e.children) : e.children[i].tag = tag

\* the two leaves stand where the edit puts them, with its texts
LeavesSet(doc, rest_url) ==
    /\ HasChild(doc, T_distInfo)
    /\ HasChild(First(doc, T_distInfo), T_distTranOps)
    /\ HasChild(First(First(doc, T_distInfo), T_distTranOps), T_onLineSrc)
    /\ HasChild(First(First(First(doc, T_distInfo), T_distTranOps), T_onLineSrc),
                T_linkage)
    /\ First(First(First(First(doc, T_distInfo), T_distTranOps), T_onLineSrc),
             T_linkage).text = rest_url
    /\ HasChild(First(doc, T_distInfo), T_distFormat)
    /\ HasChild(First(First(doc, T_distInfo), T_distFormat), T_formatName)
    /\ First(First(First(doc, T_distInfo), T_distFormat), T_formatName).text
          = ESRI_REST_Service

DistTags ==
    {T_distInfo, T_distTranOps, T_onLineSrc, T_linkage, T_distFormat, T_formatName}

\* the elements of these kinds that stand on the two paths from the root
OnPaths(doc) ==
    LET kids(es, tag) == SelectSeq(es, LAMBDA c : c.tag = tag)
        below(es)     == Flatten([i \in 1..Len(es) |-> es[i].children])
        di  == kids(doc.children, T_distInfo)
        dto == kids(below(di), T_distTranOps)
        os  == kids(below(dto), T_onLineSrc)
        lk  == kids(below(os), T_linkage)
        df  == kids(below(di), T_distFormat)
        fmt == kids(below(df), T_formatName)
    IN  Len(di) + Len(dto) + Len(os) + Len(lk) + Len(df) + Len(fmt)

RECURSIVE SumTags(_, _)
SumTags(doc, tags) ==
    IF tags = {} THEN 0
    ELSE LET t == CHOOSE t \in tags : TRUE
         IN  CountTag(doc, t) + SumTags(doc, tags \ {t})

\* the document holds one element at most of each kind, each on its path
Tidy(doc) ==
    /\ \A t \in DistTags : CountTag(doc, t) <= 1
    /\ SumTags(doc, DistTags) = OnPaths(doc)

\* the edit applied again changes nothing, and it sets the two leaves
IdempotentAndSet ==
    /\ fn_calls >= 1 => LeavesSet(fn_out[1], fn_in.rest_url)
    /\ fn_calls >= 2 => fn_out[2] = fn_out[1]

\* C6 as amended: upsertDistributionInfo is idempotent, and it sets the text
\* of the linkage leaf under the first distInfo, distTranOps and onLineSrc to
\* restUrl and that of the formatName leaf under the first distFormat to
\* "ESRI REST Service"; a document that held one element at most of each
\* kind, each in its place, ends with exactly one of each; elements beyond
\* the first of a kind, or out of place, are left as they are.
C6_UpsertIdempotentOnFirstPath ==
    /\ IdempotentAndSet
    /\ (fn_calls >= 1 /\ Tidy(fn_in.doc)) =>
        /\ \A t \in DistTags : CountTag(fn_out[1], t) = 1
        /\ Tidy(fn_out[1])

\* C6 as stated: upsertDistributionInfo is idempotent, and for any document
\* the result has exactly one distribution info with exactly one linkage
\* leaf and one format name leaf, holding restUrl and "ESRI REST Service".
C6_UpsertLeavesExactlyOne ==
    /\ IdempotentAndSet
    /\ fn_calls >= 1 =>
        /\ CountTag(fn_out[1], T_distInfo) = 1
        /\ CountTag(fn_out[1], T_linkage) = 1
        /\ CountTag(fn_out[1], T_formatName) = 1

\* C6 witness: a document with a distInfo that held only an empty
\* distTranOps was edited twice, the second time without effect
C6_Witness ==
    /\ fn_calls = 2
    /\ fn_in.doc.children = <<Elem(T_distInfo, NoText, <<Element(T_distTranOps)>>)>>
    /\ fn_in.rest_url = REST_URL
    /\ fn_out[2] = fn_out[1]
    /\ CountTag(fn_out[2], T_distTranOps) = 1
    /\ CountTag(fn_out[2], T_linkage) = 1
    /\ LeavesSet(fn_out[2], REST_URL)

====
